---------------------------- MODULE Spec2Model ----------------------------
(***************************************************************************)
(* Model of src/app.py, the weekly fund dashboard: the upload history, the *)
(* loader that cuts each spreadsheet into sections at its marker rows, the *)
(* ordering of the weeks and the per-week aggregation by currency.         *)
(*                                                                         *)
(* Conventions.  A spreadsheet cell is <<>> when empty (pandas NaN) and    *)
(* <<v>> when it holds the amount v.  A text is a sequence of tokens, so   *)
(* that "contains" and "equals" differ: <<"Weekly ", "Cash Ins">> contains *)
(* "Cash Ins" and is not equal to it.  The empty text <<>> is an empty     *)
(* label cell (NaN).                                                       *)
(***************************************************************************)
EXTENDS Integers, Sequences, FiniteSets, TLC

VARIABLES
    \* --- one table through the segment parser (lines 77-85)
    table, parts, parsed,
    \* --- one run of the script from load_fund_data to the alerts
    all_paths, pc, err, fund_data, weeks,
    selected_week, selected_currencies,
    sum_df, ins_tbl, outs_tbl, df_bal, net_w,
    \* --- the ordering of the weeks (lines 97-104)
    week_col, sorted_weeks, wdone,
    \* --- the upload history shared by the sessions (lines 20-60)
    history_file, upload_dir, clock, rpc, history, uploaded_files,
    timestamp, saved, version_labels, version_files, offered, runs

parseVars == <<table, parts, parsed>>
runVars   == <<all_paths, pc, err, fund_data, weeks, selected_week,
               selected_currencies, sum_df, ins_tbl, outs_tbl, df_bal, net_w>>
weekVars  == <<week_col, sorted_weeks, wdone>>
histVars  == <<history_file, upload_dir, clock, rpc, history, uploaded_files,
               timestamp, saved, version_labels, version_files, offered, runs>>
vars      == <<parseVars, runVars, weekVars, histVars>>

(***************************************************************************)
(* Bounds of the model.                                                    *)
(***************************************************************************)
MaxRows == 5
MaxBlocks == 3
MaxWeekRows == 4
MaxRuns == 3
NumSessions == 2

(***************************************************************************)
(* Generic helpers.                                                        *)
(***************************************************************************)
RECURSIVE Flatten(_)
Flatten(ss) == IF Len(ss) = 0 THEN <<>> ELSE Head(ss) \o Flatten(Tail(ss))

RECURSIVE SeqsUpTo(_, _)
SeqsUpTo(S, n) ==
    IF n = 0 THEN {<<>>}
    ELSE LET shorter == SeqsUpTo(S, n - 1)
         IN  shorter \cup {Append(s, x) : s \in {t \in shorter : Len(t) = n - 1}, x \in S}

RECURSIVE Ascending(_)
Ascending(S) ==
    IF S = {} THEN <<>>
    ELSE LET m == CHOOSE x \in S : \A y \in S : x <= y
         IN  <<m>> \o Ascending(S \ {m})

(***************************************************************************)
(* Cells, labels and rows of a spreadsheet.                                *)
(***************************************************************************)
NaN == <<>>
isna(cell) == Len(cell) = 0
Row(d, l, u, t) == [Details |-> d, LKR |-> l, USD |-> u, TotalLKR |-> t]
AmountColumns == {"LKR", "USD", "TotalLKR"}

\* line 77: the three marker names of the regular expression
MarkerNames == {"Bank & Cash Balances", "Cash Ins", "Cash Outs"}

\* line 77: Series.str.contains(pattern, na=False) on one label
str_contains(label) == \E i \in 1..Len(label) : label[i] \in MarkerNames

\* line 83: DataFrame.dropna(how='all') drops a row when every column is NaN
all_na(r) == isna(r.Details) /\ \A c \in AmountColumns : isna(r[c])
dropna_all(rows) == SelectSeq(rows, LAMBDA r : ~all_na(r))

(***************************************************************************)
(* The segment parser, lines 77-85.  Python positions are 0-based and the  *)
(* model's are 1-based: the marker at position p opens the slice           *)
(* iloc[start+1:end], the positions p+1 .. e-1, where e is the position of *)
(* the next marker or Len(df)+1.                                           *)
(***************************************************************************)
marker_index(df) == Ascending({p \in 1..Len(df) : str_contains(df[p].Details)})

\* a slice that runs one row too far, into the next marker row
seg_end_inclusive(df, idx, i) == IF i + 1 <= Len(idx) THEN idx[i + 1] ELSE Len(df)
seg_end(df, idx, i) == IF i + 1 <= Len(idx) THEN idx[i + 1] - 1 ELSE Len(df)

make_part(df, idx, i) ==
    LET start   == idx[i]
        section == df[start].Details
        part    == dropna_all(SubSeq(df, start + 1, seg_end(df, idx, i)))
    IN  [k \in 1..Len(part) |->
            [Details |-> part[k].Details, LKR |-> part[k].LKR, USD |-> part[k].USD,
             TotalLKR |-> part[k].TotalLKR, Section |-> section]]

parse_table(df) ==
    LET idx == marker_index(df)
    IN  [i \in 1..Len(idx) |-> make_part(df, idx, i)]

(***************************************************************************)
(* The loader, lines 64-89.  A source is a path and what pd.read_excel     *)
(* finds there: nothing readable, or a table, with or without a Details    *)
(* column.  A file name is a sequence of tokens; the separators "_" inside *)
(* a week label are left implicit.                                         *)
(***************************************************************************)
Path(d, b) == [dir |-> d, base |-> b]
Source(p, readable, details, rows) ==
    [path |-> p, readable |-> readable, has_details |-> details, rows |-> rows]

\* line 72: os.path.basename(file).replace('Fund_Balance_','').replace('.xlsx','')
week_label(file) ==
    SelectSeq(file.path.base, LAMBDA t : t \notin {"Fund_Balance_", ".xlsx"})

\* line 77: df['Details'] raises KeyError without the column; .str raises
\* AttributeError on a column that holds no text (every label cell empty)
details_error(file) ==
    IF ~file.has_details THEN "KeyError"
    ELSE IF Len(file.rows) > 0 /\ \A p \in 1..Len(file.rows) : isna(file.rows[p].Details)
         THEN "AttributeError"
         ELSE "none"

\* lines 86-87: pd.concat(parts) and the Week column
make_week_df(file) ==
    LET rows == Flatten(parse_table(file.rows))
    IN  [k \in 1..Len(rows) |->
            [Details |-> rows[k].Details, LKR |-> rows[k].LKR, USD |-> rows[k].USD,
             TotalLKR |-> rows[k].TotalLKR, Section |-> rows[k].Section,
             Week |-> week_label(file)]]

\* a loader that keeps only the first frame of each week identifier
append_frame_dedup(frames, week_df) ==
    IF Len(week_df) > 0
       /\ \E f \in 1..Len(frames) : Len(frames[f]) > 0 /\ frames[f][1].Week = week_df[1].Week
    THEN frames
    ELSE Append(frames, week_df)
\* line 88
append_frame(frames, week_df) == Append(frames, week_df)

\* lines 71-88: the loop over the files; the first uncaught exception ends it
RECURSIVE load_loop(_, _, _)
load_loop(paths, k, frames) ==
    IF k > Len(paths) THEN [err |-> "none", frames |-> frames]
    ELSE LET file == paths[k]
         IN  IF ~file.readable THEN load_loop(paths, k + 1, frames)
             ELSE IF details_error(file) # "none"
                  THEN [err |-> details_error(file), frames |-> frames]
                  ELSE IF Len(marker_index(file.rows)) = 0
                       THEN [err |-> "ValueError", frames |-> frames]
                       ELSE load_loop(paths, k + 1, append_frame(frames, make_week_df(file)))

\* lines 64-89
load_fund_data(paths) ==
    LET r == load_loop(paths, 1, <<>>)
    IN  [err |-> r.err, data |-> IF r.err = "none" THEN Flatten(r.frames) ELSE <<>>]

(***************************************************************************)
(* The ordering of the weeks, lines 97-104.                                *)
(***************************************************************************)
MonthNumber == ("February" :> 2) @@ ("March" :> 3) @@ ("April" :> 4)
DayNumber == ("4" :> 4) @@ ("7" :> 7) @@ ("30" :> 30) @@ ("31" :> 31)
\* strptime without a year checks the day against the year 1900
DaysInMonth == [m \in 1..12 |-> IF m = 2 THEN 28 ELSE IF m \in {4, 6, 9, 11} THEN 30 ELSE 31]

\* line 99: w.split('_to_')[0]
RECURSIVE split_first(_)
split_first(w) ==
    IF Len(w) = 0 \/ Head(w) = "_to_" THEN <<>> ELSE <<Head(w)>> \o split_first(Tail(w))

\* line 100: strptime(start, '%B_%d') succeeds on <month name>_<day of that month>
strptime_ok(start) ==
    /\ Len(start) = 2
    /\ start[1] \in DOMAIN MonthNumber
    /\ start[2] \in DOMAIN DayNumber
    /\ DayNumber[start[2]] <= DaysInMonth[MonthNumber[start[1]]]

\* datetime.min, below every date of the current year
datetime_min == 0

\* a fallback that sorts unparsed weeks last instead of first
parse_week_failing_last(w) ==
    LET start == split_first(w)
    IN  IF strptime_ok(start)
        THEN MonthNumber[start[1]] * 100 + DayNumber[start[2]]
        ELSE 9999
\* lines 97-102: the start date (as month*100+day of the current year) or datetime.min
parse_week(w) ==
    LET start == split_first(w)
    IN  IF strptime_ok(start)
        THEN MonthNumber[start[1]] * 100 + DayNumber[start[2]]
        ELSE datetime_min

\* Series.unique(): the values in order of first appearance
RECURSIVE unique(_)
unique(s) ==
    IF Len(s) = 0 THEN <<>>
    ELSE LET front == unique(SubSeq(s, 1, Len(s) - 1))
             x     == s[Len(s)]
         IN  IF \E i \in 1..Len(front) : front[i] = x THEN front ELSE Append(front, x)

\* sorted(..., key=parse_week): Python's sort is stable
RECURSIVE insert_by_key(_, _)
insert_by_key(s, x) ==
    IF Len(s) = 0 THEN <<x>>
    ELSE IF parse_week(s[Len(s)]) <= parse_week(x) THEN Append(s, x)
         ELSE Append(insert_by_key(SubSeq(s, 1, Len(s) - 1), x), s[Len(s)])

RECURSIVE sorted_by_week(_)
sorted_by_week(s) ==
    IF Len(s) = 0 THEN <<>>
    ELSE insert_by_key(sorted_by_week(SubSeq(s, 1, Len(s) - 1)), s[Len(s)])

\* line 104
week_list(col) == sorted_by_week(unique(col))

column(data, name) == [k \in 1..Len(data) |-> data[k][name]]

(***************************************************************************)
(* The aggregation, lines 144-194.  GroupBy.sum() skips NaN and gives 0    *)
(* for a group with no amount; a Series is a function from its index.      *)
(***************************************************************************)
value(cell) == IF isna(cell) THEN 0 ELSE cell[1]

RECURSIVE column_sum(_, _)
column_sum(rows, c) ==
    IF Len(rows) = 0 THEN 0 ELSE value(Head(rows)[c]) + column_sum(Tail(rows), c)

index_of(rows, key) == {rows[k][key] : k \in 1..Len(rows)}

\* df.groupby(key)[c].sum()
groupby_sum(rows, key, c) ==
    [g \in index_of(rows, key) |-> column_sum(SelectSeq(rows, LAMBDA r : r[key] = g), c)]

\* fund_data[fund_data['Section'] == name]
section_eq(rows, name) == SelectSeq(rows, LAMBDA r : r.Section = <<name>>)
week_eq(rows, w) == SelectSeq(rows, LAMBDA r : r.Week = w)

get(series, w) == IF w \in DOMAIN series THEN series[w] ELSE 0
\* Series.sub(other, fill_value=0) and Series.add(other, fill_value=0)
series_sub(a, b) == [w \in DOMAIN a \cup DOMAIN b |-> get(a, w) - get(b, w)]
series_add(a, b) == [w \in DOMAIN a \cup DOMAIN b |-> get(a, w) + get(b, w)]

\* reindex(weeks): NaN where the series has no entry
at(series, w) == IF w \in DOMAIN series THEN <<series[w]>> ELSE NaN

Range(s) == {s[i] : i \in 1..Len(s)}

\* line 148
weekly_summary(data, w, cs) ==
    LET df_week == week_eq(data, w)
    IN  [s \in index_of(df_week, "Section") |->
            [c \in Range(cs) |-> groupby_sum(df_week, "Section", c)[s]]]

\* lines 156 and 159
breakdown(data, w, name) == section_eq(week_eq(data, w), name)

\* line 175: .loc[['Cash Ins','Cash Outs']] raises KeyError on a missing label
chart_error(summary) ==
    IF <<"Cash Ins">> \in DOMAIN summary /\ <<"Cash Outs">> \in DOMAIN summary
    THEN "none" ELSE "KeyError"

\* lines 180-182
open_vals(data, c) == groupby_sum(section_eq(data, "Bank & Cash Balances"), "Week", c)
ins_vals(data, c)  == groupby_sum(section_eq(data, "Cash Ins"), "Week", c)
outs_vals(data, c) == groupby_sum(section_eq(data, "Cash Outs"), "Week", c)
\* a net change taken from the "Total in LKR" column instead of the currency
net_vals_total_column(data, c) ==
    series_sub(ins_vals(data, "TotalLKR"), outs_vals(data, "TotalLKR"))
\* line 183
net_vals(data, c) == series_sub(ins_vals(data, c), outs_vals(data, c))
\* a closing balance that leaves the net change out
close_vals_without_net(data, c) == open_vals(data, c)
\* line 184
close_vals(data, c) == series_add(open_vals(data, c), net_vals(data, c))

\* line 185
balances(data, wks, cs) ==
    [c \in Range(cs) |->
        [w \in Range(wks) |->
            [Opening   |-> at(open_vals(data, c), w),
             NetChange |-> at(net_vals(data, c), w),
             Closing   |-> at(close_vals(data, c), w)]]]

\* lines 192-194: reindex([selected_week], fill_value=0), then sub
alert_net(data, w, cs) ==
    [c \in Range(cs) |->
        get(groupby_sum(section_eq(week_eq(data, w), "Cash Ins"), "Week", c), w)
      - get(groupby_sum(section_eq(week_eq(data, w), "Cash Outs"), "Week", c), w)]

(***************************************************************************)
(* The inputs: rows, tables and sources.                                   *)
(***************************************************************************)
mBank    == Row(<<"Bank & Cash Balances">>, NaN, NaN, NaN)
mIns     == Row(<<"Cash Ins">>, NaN, NaN, NaN)
mInsX    == Row(<<"Weekly ", "Cash Ins">>, NaN, NaN, NaN)
mOuts    == Row(<<"Cash Outs">>, NaN, NaN, NaN)
rBank    == Row(<<"Bank">>, <<4>>, <<1>>, <<9>>)
rHand    == Row(<<"Cash in Hand">>, <<2>>, NaN, <<2>>)
rDeposit == Row(<<"Fixed Deposit">>, <<1>>, <<2>>, <<7>>)
rPay     == Row(<<"Customer Payments">>, <<3>>, <<2>>, <<8>>)
rPay2    == Row(<<"Customer Payments">>, <<6>>, NaN, <<6>>)
rSupply  == Row(<<"Supplier Payments">>, <<1>>, NaN, <<5>>)
rNoLabel == Row(NaN, <<5>>, NaN, NaN)
rBlank   == Row(NaN, NaN, NaN, NaN)

\* the tables given to the parser alone: every sequence of these rows
ParseRows == {mBank, mInsX, mOuts, rPay, rNoLabel, rBlank}
ParseTables == SeqsUpTo(ParseRows, MaxRows)

\* the tables given to a whole run: up to MaxBlocks of these blocks
Blocks == { <<mBank, rBank, rHand>>, <<mBank, rBank, rHand, rDeposit>>,
            <<mIns, rPay>>, <<mInsX, rPay2>>, <<mOuts, rSupply>>, <<rBlank, rDeposit>> }
RunTables == {Flatten(bs) : bs \in SeqsUpTo(Blocks, MaxBlocks)}

weekA == <<"March", "31", "_to_", "April", "4">>
weekB == <<"April", "7", "_to_", "April", "11">>
weekC == <<"February", "4", "_to_", "February", "8">>
xlsx(w) == <<"Fund_Balance_">> \o w \o <<".xlsx">>

MainSources == {Source(Path("data", xlsx(weekA)), TRUE, TRUE, t) : t \in RunTables}
Companions ==
    { Source(Path("uploads", <<"upload_history.json">>), FALSE, FALSE, <<>>),
      Source(Path("data", xlsx(weekB)), TRUE, FALSE, <<rPay>>),
      Source(Path("data", xlsx(weekB)), TRUE, TRUE, <<rNoLabel>>),
      Source(Path(".", xlsx(weekA)), TRUE, TRUE, <<mIns, rPay2, mOuts, rSupply>>),
      Source(Path("data", xlsx(weekB)), TRUE, TRUE, <<mIns, rPay>>),
      Source(Path("data", xlsx(weekC)), TRUE, TRUE, <<mOuts, rSupply>>),
      Source(Path("uploads", <<"ts_">> \o xlsx(weekB)), TRUE, TRUE,
             <<mBank, rBank, mIns, rPay, mOuts, rSupply>>) }
SourceLists ==
    {<<m>> : m \in MainSources}
    \cup {<<m, c>> : m \in MainSources, c \in Companions}
    \cup {<<c, m>> : m \in MainSources, c \in Companions}

\* line 110 (two of the nine currencies) and the multiselect's possible results
CurrencyChoices == {<<>>, <<"LKR">>, <<"LKR", "USD">>}

(***************************************************************************)
(* One run of the script: load (lines 62-104), then render (106-200).      *)
(***************************************************************************)
IdleParse == table = <<>> /\ parts = <<>> /\ parsed = FALSE
IdleRun ==
    /\ all_paths = <<>> /\ pc = "idle" /\ err = "none" /\ fund_data = <<>>
    /\ weeks = <<>> /\ selected_week = <<>> /\ selected_currencies = <<>>
    /\ sum_df = <<>> /\ ins_tbl = <<>> /\ outs_tbl = <<>> /\ df_bal = <<>> /\ net_w = <<>>
IdleWeeks == week_col = <<>> /\ sorted_weeks = <<>> /\ wdone = FALSE
IdleHist ==
    /\ history_file = <<>> /\ upload_dir = {} /\ clock = 0 /\ rpc = <<>>
    /\ history = <<>> /\ uploaded_files = <<>> /\ timestamp = <<>> /\ saved = <<>>
    /\ version_labels = <<>> /\ version_files = <<>> /\ offered = {} /\ runs = 0

Init ==
    /\ all_paths \in SourceLists
    /\ pc = "start" /\ err = "none" /\ fund_data = <<>>
    /\ weeks = <<>> /\ selected_week = <<>> /\ selected_currencies = <<>>
    /\ sum_df = <<>> /\ ins_tbl = <<>> /\ outs_tbl = <<>> /\ df_bal = <<>> /\ net_w = <<>>
    /\ IdleParse /\ IdleWeeks /\ IdleHist

\* lines 91-104
Load ==
    /\ pc = "start"
    /\ LET r == load_fund_data(all_paths)
       IN  IF r.err # "none"
           THEN /\ pc' = "load_error" /\ err' = r.err
                /\ UNCHANGED <<fund_data, weeks>>
           ELSE IF Len(r.data) = 0
                THEN /\ pc' = "stopped_empty"
                     /\ UNCHANGED <<err, fund_data, weeks>>
                ELSE /\ pc' = "loaded"
                     /\ fund_data' = r.data
                     /\ weeks' = week_list(column(r.data, "Week"))
                     /\ UNCHANGED err
    /\ UNCHANGED <<all_paths, selected_week, selected_currencies,
                   sum_df, ins_tbl, outs_tbl, df_bal, net_w>>
    /\ UNCHANGED <<parseVars, weekVars, histVars>>

\* lines 106-200, for the week and the currencies chosen in the sidebar.  The
\* currency converter (116-131) and the weekly comparison (162-170) write none
\* of the figures below and are left out; the exception of line 175 ends the
\* run before the balances and the alerts are computed.
Render ==
    /\ pc = "loaded"
    /\ \E w \in Range(weeks), cs \in CurrencyChoices :
        /\ selected_week' = w
        /\ selected_currencies' = cs
        /\ IF Len(cs) = 0
           THEN /\ pc' = "stopped_no_currency"
                /\ UNCHANGED <<err, sum_df, ins_tbl, outs_tbl, df_bal, net_w>>
           ELSE /\ sum_df' = weekly_summary(fund_data, w, cs)
                /\ ins_tbl' = breakdown(fund_data, w, "Cash Ins")
                /\ outs_tbl' = breakdown(fund_data, w, "Cash Outs")
                /\ IF chart_error(weekly_summary(fund_data, w, cs)) # "none"
                   THEN /\ pc' = "chart_error"
                        /\ err' = chart_error(weekly_summary(fund_data, w, cs))
                        /\ UNCHANGED <<df_bal, net_w>>
                   ELSE /\ pc' = "done"
                        /\ df_bal' = balances(fund_data, weeks, cs)
                        /\ net_w' = alert_net(fund_data, w, cs)
                        /\ UNCHANGED err
    /\ UNCHANGED <<all_paths, fund_data, weeks>>
    /\ UNCHANGED <<parseVars, weekVars, histVars>>

Next == Load \/ Render
Spec == Init /\ [][Next]_vars

(***************************************************************************)
(* The parser on one table.                                                *)
(***************************************************************************)
InitParse ==
    /\ table \in ParseTables /\ parts = <<>> /\ parsed = FALSE
    /\ IdleRun /\ IdleWeeks /\ IdleHist

ParseTable ==
    /\ ~parsed
    /\ parts' = parse_table(table)
    /\ parsed' = TRUE
    /\ UNCHANGED <<table, runVars, weekVars, histVars>>

NextParse == ParseTable
SpecParse == InitParse /\ [][NextParse]_vars

(***************************************************************************)
(* What the properties compare the program with: the section of a row read *)
(* off the table position by position, and totals summed row by row.       *)
(***************************************************************************)
Contains(label, name) == \E i \in 1..Len(label) : label[i] = name
HasMarker(label) ==
    Contains(label, "Bank & Cash Balances") \/ Contains(label, "Cash Ins")
        \/ Contains(label, "Cash Outs")
IsBlank(r) == r.Details = <<>> /\ r.LKR = <<>> /\ r.USD = <<>> /\ r.TotalLKR = <<>>
Max(S) == CHOOSE x \in S : \A y \in S : y <= x
Min(S) == CHOOSE x \in S : \A y \in S : x <= y

MarkerPositions(df) == {p \in 1..Len(df) : HasMarker(df[p].Details)}
MarkersBefore(df, p) == {q \in MarkerPositions(df) : q < p}
KeptPositions(df) ==
    {p \in 1..Len(df) : MarkersBefore(df, p) # {} /\ ~HasMarker(df[p].Details) /\ ~IsBlank(df[p])}
DiscardedBlanks(df) ==
    {p \in 1..Len(df) : MarkersBefore(df, p) # {} /\ IsBlank(df[p])}
\* the rows a marker at position m owns, in table order
OwnedBy(df, m) == Ascending({p \in KeptPositions(df) : Max(MarkersBefore(df, p)) = m})

Tagged(r, section) ==
    [Details |-> r.Details, LKR |-> r.LKR, USD |-> r.USD, TotalLKR |-> r.TotalLKR,
     Section |-> section]
ExpectedSegment(df, m) ==
    [k \in 1..Len(OwnedBy(df, m)) |-> Tagged(df[OwnedBy(df, m)[k]], df[m].Details)]

RECURSIVE TotalLen(_)
TotalLen(ss) == IF Len(ss) = 0 THEN 0 ELSE Len(ss[Len(ss)]) + TotalLen(SubSeq(ss, 1, Len(ss) - 1))

\* C1: a table with at least one marker row parses into exactly one segment per
\* marker row; each segment holds the non-blank rows strictly between its marker
\* and the next marker (or the end of the table), tagged with the marker's label;
\* segment rows + discarded blank rows + marker rows = the rows at or after the
\* first marker; a marker in the last row opens a segment of zero rows.
C1_OneSegmentPerMarker ==
    (parsed /\ MarkerPositions(table) # {}) =>
        LET ms == Ascending(MarkerPositions(table))
        IN  /\ Len(parts) = Cardinality(MarkerPositions(table))
            /\ \A i \in 1..Len(parts) : parts[i] = ExpectedSegment(table, ms[i])
            /\ TotalLen(parts) + Cardinality(DiscardedBlanks(table))
                   + Cardinality(MarkerPositions(table))
               = Len(table) - Min(MarkerPositions(table)) + 1
            /\ HasMarker(table[Len(table)].Details) => Len(parts[Len(parts)]) = 0

C1_Witness ==
    /\ parsed
    /\ Cardinality(MarkerPositions(table)) = 2
    /\ HasMarker(table[Len(table)].Details)
    /\ DiscardedBlanks(table) # {}
    /\ Len(parts) = 2 /\ Len(parts[1]) = 2 /\ Len(parts[2]) = 0

(***************************************************************************)
(* The dataset a load is expected to give, read off the sources.           *)
(***************************************************************************)
ExpectedRows(src) ==
    LET df   == src.rows
        kept == Ascending(KeptPositions(df))
    IN  [k \in 1..Len(kept) |->
            [Details |-> df[kept[k]].Details, LKR |-> df[kept[k]].LKR,
             USD |-> df[kept[k]].USD, TotalLKR |-> df[kept[k]].TotalLKR,
             Section |-> df[Max(MarkersBefore(df, kept[k]))].Details,
             Week |-> week_label(src)]]

Unreadable(src) == ~src.readable
NoLabelColumn(src) ==
    src.readable /\ (~src.has_details
                     \/ (Len(src.rows) > 0 /\ \A p \in 1..Len(src.rows) : src.rows[p].Details = <<>>))
NoMarkers(src) == src.readable /\ ~NoLabelColumn(src) /\ MarkerPositions(src.rows) = {}
Valid(src) == src.readable /\ ~NoLabelColumn(src) /\ MarkerPositions(src.rows) # {}

ExpectedData(paths) ==
    Flatten([k \in 1..Len(paths) |-> IF Valid(paths[k]) THEN ExpectedRows(paths[k]) ELSE <<>>])

RECURSIVE Total(_, _)
Total(rows, c) ==
    IF Len(rows) = 0 THEN 0
    ELSE Total(SubSeq(rows, 1, Len(rows) - 1), c)
         + (IF rows[Len(rows)][c] = <<>> THEN 0 ELSE rows[Len(rows)][c][1])

\* the rows of week w whose section text is exactly `name`
RowsIn(data, w, name) == SelectSeq(data, LAMBDA r : r.Week = w /\ r.Section = <<name>>)
InSection(w, name) == RowsIn(ExpectedData(all_paths), w, name)
\* the rows of week w whose section text contains `name`
RowsLike(data, w, name) == SelectSeq(data, LAMBDA r : r.Week = w /\ Contains(r.Section, name))
InSectionLike(w, name) == RowsLike(ExpectedData(all_paths), w, name)

Loaded == pc \in {"loaded", "stopped_no_currency", "chart_error", "done"}
LoadEnded == pc # "start"
Summarised == pc \in {"chart_error", "done"}

\* C2: a source table without any marker row is skipped without raising, and the
\* dataset is exactly the rows parsed from the other sources.
C2_NoMarkerSourceSkipped ==
    (LoadEnded /\ (\E k \in 1..Len(all_paths) : NoMarkers(all_paths[k]))
               /\ (\A k \in 1..Len(all_paths) : ~NoLabelColumn(all_paths[k]))) =>
        /\ pc # "load_error"
        /\ Loaded => fund_data = ExpectedData(all_paths)

\* C9: with unreadable or structurally invalid sources in the list (and every
\* other source valid), the load finishes without raising and the dataset is
\* exactly the rows of the valid sources, in source order.
C9_BadSourceNeverAborts ==
    (LoadEnded /\ (\A k \in 1..Len(all_paths) :
                      Unreadable(all_paths[k]) \/ NoLabelColumn(all_paths[k]) \/ Valid(all_paths[k]))) =>
        /\ pc # "load_error"
        /\ Loaded => fund_data = ExpectedData(all_paths)

SelectedCurrencies == {selected_currencies[i] : i \in 1..Len(selected_currencies)}
LoadedWeeks == {weeks[i] : i \in 1..Len(weeks)}
Opening(c, w) == df_bal[c][w].Opening
NetChange(c, w) == df_bal[c][w].NetChange
Closing(c, w) == df_bal[c][w].Closing
\* an amount of the balances table, a missing one counted as 0
Amount(cell) == IF cell = <<>> THEN 0 ELSE cell[1]

C4_NetIsInsMinusOuts ==
    pc = "done" =>
        LET expected == ExpectedData(all_paths)
        IN  \A c \in SelectedCurrencies :
                /\ \A w \in LoadedWeeks :
                    /\ Amount(NetChange(c, w))
                       = Total(RowsIn(expected, w, "Cash Ins"), c)
                         - Total(RowsIn(expected, w, "Cash Outs"), c)
                    /\ NetChange(c, w) = <<>>
                       <=> (Len(RowsIn(expected, w, "Cash Ins")) = 0
                            /\ Len(RowsIn(expected, w, "Cash Outs")) = 0)
                /\ net_w[c] = Total(RowsIn(expected, selected_week, "Cash Ins"), c)
                              - Total(RowsIn(expected, selected_week, "Cash Outs"), c)

C4_Witness ==
    /\ pc = "done"
    /\ "LKR" \in SelectedCurrencies
    /\ net_w["LKR"] = 2
    /\ \E w \in LoadedWeeks :
        /\ Len(InSection(w, "Cash Ins")) > 0
        /\ Len(InSection(w, "Cash Outs")) = 0
        /\ NetChange("LKR", w) = <<3>>

\* C5: the aggregator selects a section's rows by substring containment, like
\* the parser: the rows under a marker whose label contains "Bank & Cash
\* Balances", "Cash Ins" or "Cash Outs" with extra text are counted in the
\* opening balance, the cash-in and the cash-out figures.
C5_SectionLookupBySubstring ==
    /\ Summarised =>
        /\ Len(ins_tbl) = Len(InSectionLike(selected_week, "Cash Ins"))
        /\ Len(outs_tbl) = Len(InSectionLike(selected_week, "Cash Outs"))
    /\ pc = "done" =>
        \A c \in SelectedCurrencies, w \in LoadedWeeks :
            /\ Amount(Opening(c, w)) = Total(InSectionLike(w, "Bank & Cash Balances"), c)
            /\ Amount(NetChange(c, w))
               = Total(InSectionLike(w, "Cash Ins"), c) - Total(InSectionLike(w, "Cash Outs"), c)

\* C6: when a week has no row at all in a section, no aggregation or display
\* step raises and the section counts as zero for every requested currency.
NoRowsIn(w, name) == Len(InSectionLike(w, name)) = 0
C6_MissingSectionIsZero ==
    (Summarised /\ \E name \in MarkerNames : NoRowsIn(selected_week, name)) =>
        /\ pc = "done"
        /\ \A c \in SelectedCurrencies, w \in LoadedWeeks :
            /\ NoRowsIn(w, "Bank & Cash Balances") => Amount(Opening(c, w)) = 0
            /\ (NoRowsIn(w, "Cash Ins") /\ NoRowsIn(w, "Cash Outs"))
                  => Amount(NetChange(c, w)) = 0

\* C7: rows are never de-duplicated by week: the dataset keeps the rows of every
\* source, and each section total of the selected week is the sum over the rows
\* of all the sources that produced that week identifier.
C7_SameWeekSourcesAreSummed ==
    LET expected == ExpectedData(all_paths)
        of_week  == SelectSeq(expected, LAMBDA r : r.Week = selected_week)
        sections == {of_week[k].Section : k \in 1..Len(of_week)}
    IN  /\ Loaded => fund_data = expected
        /\ Summarised =>
            /\ DOMAIN sum_df = sections
            /\ \A s \in sections, c \in SelectedCurrencies :
                  sum_df[s][c] = Total(SelectSeq(of_week, LAMBDA r : r.Section = s), c)

C7_Witness ==
    /\ pc = "done"
    /\ Len(all_paths) = 2
    /\ week_label(all_paths[1]) = week_label(all_paths[2])
    /\ \A k \in 1..2 :
          \E p \in 1..Len(ExpectedRows(all_paths[k])) :
              /\ ExpectedRows(all_paths[k])[p].Section = <<"Cash Ins">>
              /\ ExpectedRows(all_paths[k])[p].LKR # <<>>
    /\ "LKR" \in SelectedCurrencies
    /\ sum_df[<<"Cash Ins">>]["LKR"] = 9

(***************************************************************************)
(* The ordering of the weeks on its own: the Week column of a dataset.     *)
(***************************************************************************)
WeekIds == { weekA, weekB, weekC, <<"W1">>, <<"ts_">> \o weekB,
             <<"February", "30", "_to_", "March", "7">>,
             <<"April", "7", "_to_", "April", "30">> }

InitWeeks ==
    /\ week_col \in (SeqsUpTo(WeekIds, MaxWeekRows) \ {<<>>})
    /\ sorted_weeks = <<>> /\ wdone = FALSE
    /\ IdleParse /\ IdleRun /\ IdleHist

\* line 104
SortWeeks ==
    /\ ~wdone
    /\ sorted_weeks' = week_list(week_col)
    /\ wdone' = TRUE
    /\ UNCHANGED <<week_col, parseVars, runVars, histVars>>

NextWeeks == SortWeeks
SpecWeeks == InitWeeks /\ [][NextWeeks]_vars

\* the start of a week identifier, read off the identifier
StartTokens(w) ==
    LET cut == {i \in 1..Len(w) : w[i] = "_to_"}
    IN  IF cut = {} THEN w ELSE SubSeq(w, 1, Min(cut) - 1)
Calendar ==
    {<<"February", d>> : d \in {"4", "7"}}
    \cup {<<"March", d>> : d \in {"4", "7", "30", "31"}}
    \cup {<<"April", d>> : d \in {"4", "7", "30"}}
StartParses(w) == StartTokens(w) \in Calendar
Earlier(v, w) ==
    LET month == [February |-> 2, March |-> 3, April |-> 4]
        day   == ("4" :> 4) @@ ("7" :> 7) @@ ("30" :> 30) @@ ("31" :> 31)
        a     == StartTokens(v)
        b     == StartTokens(w)
    IN  \/ month[a[1]] < month[b[1]]
        \/ month[a[1]] = month[b[1]] /\ day[a[2]] < day[b[2]]

\* C8: in the ordered week list every week whose start date cannot be parsed
\* comes before every week whose start date parses, and the parsed weeks are in
\* non-decreasing order of start date; the list holds each loaded week once.
C8_UnparsedWeeksFirst ==
    wdone =>
        /\ {sorted_weeks[i] : i \in 1..Len(sorted_weeks)} = {week_col[i] : i \in 1..Len(week_col)}
        /\ \A i, j \in 1..Len(sorted_weeks) :
            i < j =>
                /\ sorted_weeks[i] # sorted_weeks[j]
                /\ StartParses(sorted_weeks[i]) => StartParses(sorted_weeks[j])
                /\ (StartParses(sorted_weeks[i]) /\ StartParses(sorted_weeks[j]))
                      => ~Earlier(sorted_weeks[j], sorted_weeks[i])

C8_Witness ==
    /\ wdone
    /\ Len(sorted_weeks) = 4
    /\ StartParses(week_col[1]) /\ ~StartParses(week_col[2])
    /\ StartParses(week_col[3]) /\ ~StartParses(week_col[4])
    /\ Earlier(week_col[3], week_col[1])
    /\ ~StartParses(sorted_weeks[1]) /\ ~StartParses(sorted_weeks[2])
    /\ sorted_weeks[3] = week_col[3] /\ sorted_weeks[4] = week_col[1]

(***************************************************************************)
(* The upload history, lines 20-60.  Every browser session runs the script *)
(* in a thread of its own, so the runs of two sessions interleave at their *)
(* file operations.  A timestamp is the clock value read at line 42; a     *)
(* saved file name is <<timestamp, uploaded name>>.  The size of the       *)
(* history file is counted in entries and file names.                      *)
(***************************************************************************)
Sessions == 1..NumSessions
UploadChoices == {<<>>, <<"a.xlsx">>, <<"a.xlsx", "b.xlsx">>}
NoFile == [exists |-> FALSE, ok |-> FALSE, entries |-> <<>>, size |-> 0]

RECURSIVE json_size(_)
json_size(h) == IF Len(h) = 0 THEN 0 ELSE 1 + Len(Head(h).files) + json_size(Tail(h))

\* lines 26-32: the parsed file, or [] when it is missing or does not parse
load_history(file) == IF file.exists /\ file.ok THEN file.entries ELSE <<>>

\* line 45: f"{timestamp}_{f.name}"
filenames(ts, files) == [i \in 1..Len(files) |-> <<ts, files[i]>>]

\* line 51, open(HISTORY_FILE, 'w'): the file is created or truncated
open_for_write(file) == [exists |-> TRUE, ok |-> FALSE, entries |-> <<>>, size |-> 0]

\* line 51, json.dump: the text is written from offset 0 of the writer's own
\* handle; over a longer text written meanwhile it leaves that text's tail
dump(file, h) ==
    IF json_size(h) >= file.size
    THEN [exists |-> TRUE, ok |-> TRUE, entries |-> h, size |-> json_size(h)]
    ELSE [exists |-> TRUE, ok |-> FALSE, entries |-> <<>>, size |-> file.size]

timestamps(h) == {h[i].timestamp : i \in 1..Len(h)}

InitHistory ==
    /\ history_file = NoFile
    /\ upload_dir = {}
    /\ clock = 0
    /\ runs = 0
    /\ rpc = [s \in Sessions |-> "idle"]
    /\ history = [s \in Sessions |-> <<>>]
    /\ uploaded_files = [s \in Sessions |-> <<>>]
    /\ timestamp = [s \in Sessions |-> 0]
    /\ saved = [s \in Sessions |-> <<>>]
    /\ version_labels = [s \in Sessions |-> <<>>]
    /\ version_files = [s \in Sessions |-> {}]
    /\ offered = {}
    /\ IdleParse /\ IdleRun /\ IdleWeeks

\* lines 34-40: a run starts, reads the history and the uploader's files
LoadHistory(s) ==
    /\ rpc[s] = "idle"
    /\ runs < MaxRuns
    /\ runs' = runs + 1
    /\ history' = [history EXCEPT ![s] = load_history(history_file)]
    /\ \E files \in UploadChoices :
        /\ uploaded_files' = [uploaded_files EXCEPT ![s] = files]
        /\ rpc' = [rpc EXCEPT ![s] = IF Len(files) > 0 THEN "upload" ELSE "select"]
    /\ UNCHANGED <<history_file, upload_dir, clock, timestamp, saved,
                   version_labels, version_files, offered>>
    /\ UNCHANGED <<parseVars, runVars, weekVars>>

\* lines 42-50: save the uploaded files, append the entry to the run's list
SaveUploads(s) ==
    /\ rpc[s] = "upload"
    /\ clock' = clock + 1
    /\ timestamp' = [timestamp EXCEPT ![s] = clock + 1]
    /\ saved' = [saved EXCEPT ![s] = filenames(clock + 1, uploaded_files[s])]
    /\ upload_dir' = upload_dir \cup Range(filenames(clock + 1, uploaded_files[s]))
    /\ history' = [history EXCEPT ![s] =
                      Append(@, [timestamp |-> clock + 1,
                                 files |-> filenames(clock + 1, uploaded_files[s])])]
    /\ rpc' = [rpc EXCEPT ![s] = "open"]
    /\ UNCHANGED <<history_file, runs, uploaded_files, version_labels, version_files, offered>>
    /\ UNCHANGED <<parseVars, runVars, weekVars>>

\* line 51: open(HISTORY_FILE, 'w')
OpenHistory(s) ==
    /\ rpc[s] = "open"
    /\ history_file' = open_for_write(history_file)
    /\ rpc' = [rpc EXCEPT ![s] = "dump"]
    /\ UNCHANGED <<upload_dir, clock, runs, history, uploaded_files, timestamp, saved,
                   version_labels, version_files, offered>>
    /\ UNCHANGED <<parseVars, runVars, weekVars>>

\* line 51: json.dump(history, ...)
DumpHistory(s) ==
    /\ rpc[s] = "dump"
    /\ history_file' = dump(history_file, history[s])
    /\ rpc' = [rpc EXCEPT ![s] = "select"]
    /\ UNCHANGED <<upload_dir, clock, runs, history, uploaded_files, timestamp, saved,
                   version_labels, version_files, offered>>
    /\ UNCHANGED <<parseVars, runVars, weekVars>>

\* lines 55-60: the versions offered, and the files of the one chosen
\* (choice 0 is 'Latest', choice k the k-th timestamp)
SelectVersion(s) ==
    /\ rpc[s] = "select"
    /\ version_labels' = [version_labels EXCEPT ![s] =
                             [i \in 1..Len(history[s]) |-> history[s][i].timestamp]]
    /\ offered' = offered \cup timestamps(history[s])
    /\ \E choice \in 0..Len(history[s]) :
        version_files' = [version_files EXCEPT ![s] =
            IF choice = 0
            THEN upload_dir \cup (IF history_file.exists
                                  THEN {<<0, "upload_history.json">>} ELSE {})
            ELSE Range(history[s][choice].files)]
    /\ rpc' = [rpc EXCEPT ![s] = "idle"]
    /\ UNCHANGED <<history_file, upload_dir, clock, runs, history, uploaded_files,
                   timestamp, saved>>
    /\ UNCHANGED <<parseVars, runVars, weekVars>>

NextHistory ==
    \E s \in Sessions :
        \/ LoadHistory(s)
        \/ SaveUploads(s)
        \/ OpenHistory(s)
        \/ DumpHistory(s)
        \/ SelectVersion(s)
SpecHistory == InitHistory /\ [][NextHistory]_vars

NoWriteInProgress == \A s \in Sessions : rpc[s] # "dump"

\* C10: the upload history is append-only over any sequence of runs, also of
\* two interleaving sessions: whenever no run is in the middle of writing the
\* history file, the file is readable, holds every timestamp that was ever
\* offered under 'Select Data Version', and every file it names exists in the
\* upload directory.
C10_HistoryAppendOnly ==
    (NoWriteInProgress /\ history_file.exists) =>
        /\ history_file.ok
        /\ offered \subseteq timestamps(history_file.entries)
        /\ \A i \in 1..Len(history_file.entries) :
              Range(history_file.entries[i].files) \subseteq upload_dir
=============================================================================
